---- MODULE Spec2Model ----
(***************************************************************************)
(* A model of language_dictionary/word.py: the Word entry, its parser      *)
(* (from_line), its serializer (__str__), equality, the append/merge       *)
(* operations and the sort-key extraction.                                 *)
(*                                                                         *)
(* A Python str is a sequence of characters, each character a TLA+ string  *)
(* of length one.  The German characters that replace_odd_characters       *)
(* rewrites are written with the names "ae", "oe", "ue", "sz" (one         *)
(* sequence element each).  A Python "list or None" is a record            *)
(* [isNone, items].                                                        *)
(***************************************************************************)
EXTENDS Integers, Sequences, FiniteSets, TLC

VARIABLES words, line, parsed, res, steps, order

vars == <<words, line, parsed, res, steps, order>>

(***************************************************************************)
(* Python str primitives                                                   *)
(***************************************************************************)
WhiteSpace == {" ", "\t", "\n"}

LowerCase == <<"a", "b", "c", "d", "e", "f", "g", "h", "i", "j", "k", "l", "m",
               "n", "o", "p", "q", "r", "s", "t", "u", "v", "w", "x", "y", "z">>

UpperCase == <<"A", "B", "C", "D", "E", "F", "G", "H", "I", "J", "K", "L", "M",
               "N", "O", "P", "Q", "R", "S", "T", "U", "V", "W", "X", "Y", "Z">>

\* The characters replace_odd_characters rewrites; all are lower case.
OddLetters == {"ae", "oe", "ue", "sz"}

LowerChar(c) == IF \E k \in DOMAIN UpperCase : UpperCase[k] = c
                THEN LowerCase[CHOOSE k \in DOMAIN UpperCase : UpperCase[k] = c]
                ELSE c

Lower(s) == [k \in 1..Len(s) |-> LowerChar(s[k])]

IsAlpha(c) == \/ \E k \in DOMAIN LowerCase : c \in {LowerCase[k], UpperCase[k]}
              \/ c \in OddLetters

RECURSIVE LStrip(_)
LStrip(s) == IF s # <<>> /\ Head(s) \in WhiteSpace THEN LStrip(Tail(s)) ELSE s

RECURSIVE RStrip(_)
RStrip(s) == IF s # <<>> /\ s[Len(s)] \in WhiteSpace
             THEN RStrip(SubSeq(s, 1, Len(s) - 1)) ELSE s

Strip(s) == RStrip(LStrip(s))

\* str.split(sep) with an explicit separator: left to right, non-overlapping;
\* the empty string splits into one empty piece.
RECURSIVE Split(_, _)
Split(s, sep) ==
    IF Len(s) < Len(sep) THEN <<s>>
    ELSE IF SubSeq(s, 1, Len(sep)) = sep
         THEN <<<<>>>> \o Split(SubSeq(s, Len(sep) + 1, Len(s)), sep)
         ELSE LET r == Split(Tail(s), sep)
              IN  <<<<Head(s)>> \o Head(r)>> \o Tail(r)

RECURSIVE Join(_, _)
Join(sep, parts) ==
    IF parts = <<>> THEN <<>>
    ELSE IF Len(parts) = 1 THEN parts[1]
    ELSE parts[1] \o sep \o Join(sep, Tail(parts))

Range(s) == {s[k] : k \in DOMAIN s}

\* All orders in which a Python set may be iterated.
Perms(S) == {p \in [1..Cardinality(S) -> S] : Range(p) = S}

RECURSIVE Filter(_, _)
Filter(s, S) == IF s = <<>> THEN <<>>
                ELSE (IF Head(s) \in S THEN <<Head(s)>> ELSE <<>>) \o Filter(Tail(s), S)

\* repr() of a str without quotes, backslashes or control characters, and
\* str() of a list of such strings, as an f-string renders a list.
ReprStr(s) == <<"'">> \o s \o <<"'">>

ReprList(l) == <<"[">> \o Join(<<",", " ">>, [k \in 1..Len(l) |-> ReprStr(l[k])]) \o <<"]">>

PyNone == [isNone |-> TRUE, items |-> <<>>]
PyList(l) == [isNone |-> FALSE, items |-> l]
\* Truthiness of a "list or None" value.
Truthy(v) == ~v.isNone /\ v.items # <<>>

(***************************************************************************)
(* Package data (language_dictionary/__init__.py, utils.py).               *)
(***************************************************************************)
de == <<"d", "e">>
en == <<"e", "n">>
SUPPORTED_LANGUAGES == {de, en}

ARTICLES == [l \in SUPPORTED_LANGUAGES |->
               IF l = de THEN {<<"d", "e", "r">>, <<"d", "i", "e">>, <<"d", "a", "s">>}
                         ELSE {<<"t", "h", "e">>}]

OddCharacters == [c \in OddLetters |->
                    CASE c = "ae" -> <<"a", "e">> [] c = "oe" -> <<"o", "e">>
                      [] c = "ue" -> <<"u", "e">> [] c = "sz" -> <<"s", "s">>]

RECURSIVE replace_odd_characters(_)
replace_odd_characters(s) ==
    IF s = <<>> THEN <<>>
    ELSE (IF Head(s) \in DOMAIN OddCharacters THEN OddCharacters[Head(s)] ELSE <<Head(s)>>)
         \o replace_odd_characters(Tail(s))

(***************************************************************************)
(* class Word: constants                                                   *)
(***************************************************************************)
tN == <<"n">>
tF == <<"f">>
tM == <<"m">>
tNt == <<"n", "t">>
tPl == <<"p", "l">>
tV == <<"v">>
tAdj == <<"a", "d", "j">>
tExpr == <<"e", "x", "p", "r">>

WORD_TAGS == {tAdj, <<"a", "d", "v">>, <<"c", "o", "n", "j">>, tExpr, tN,
              <<"p", "r", "o", "n">>, <<"p", "r", "e", "p">>, tF, tM, tNt, tPl, tV}

WORD_KEYS == <<"word", "meanings", "examples", "other", "tags">>

LINE_SEP == <<"<", "b", "r", ">">>

GenderTags == {tF, tM, tNt, tPl}

(***************************************************************************)
(* Construction                                                            *)
(***************************************************************************)
NoWord == [language |-> <<>>]

Failed(kind) == [status |-> kind, w |-> NoWord]

validate_tags(tags) == Filter(tags, WORD_TAGS)

\* The language stored, or the failure raised.
validate_language(language) ==
    IF Lower(language) \in SUPPORTED_LANGUAGES
    THEN [status |-> "ok", value |-> Lower(language)]
    ELSE [status |-> "WordError", value |-> <<>>]

\* In the noun branch part.capitalize() is computed and dropped: the parts
\* are rejoined as they were.
standardize_word(language, tags, word) ==
    LET w == Strip(word)
    IN  IF language # de THEN Lower(w)
        ELSE IF tN \in Range(tags) THEN Join(<<" ">>, Split(w, <<" ">>))
        ELSE IF tExpr \notin Range(tags) THEN Lower(w)
        ELSE w

\* Word.__init__: meanings is stored as given (None stays None); examples,
\* other and sep get their defaults.
WordInit(language, word, tags, meanings, examples, other, sep) ==
    LET lang == validate_language(language)
    IN  IF lang.status # "ok" THEN Failed(lang.status)
        ELSE LET vt == validate_tags(tags)
             IN  [status |-> "ok",
                  w |-> [language |-> lang.value,
                         tags     |-> vt,
                         word     |-> standardize_word(lang.value, vt, word),
                         meanings |-> meanings,
                         examples |-> IF examples.isNone THEN PyList(<<>>) ELSE examples,
                         other    |-> IF other.isNone THEN PyList(<<>>) ELSE other,
                         sep      |-> IF sep.isNone THEN <<"\t">> ELSE sep.items]]

\* Word.__eq__ on two Word objects.
WordEq(a, b) == a.language = b.language /\ a.word = b.word /\ a.tags = b.tags

(***************************************************************************)
(* Parsing                                                                 *)
(***************************************************************************)
RECURSIVE TagPieces(_)
TagPieces(toks) ==
    IF toks = <<>> THEN {}
    ELSE (IF Head(toks) # <<>> THEN Range(Split(Head(toks), <<".">>)) ELSE {})
         \cup TagPieces(Tail(toks))

\* Word.process_tags: the set collected; list(final_tags) is any order of it.
process_tags(tags) == Perms(TagPieces(Split(tags, <<" ">>)))

\* One of the meanings / examples / other fields of a line.
ParseField(value) ==
    LET v == Strip(value)
    IN  IF v = <<>> THEN PyNone
        ELSE LET ps == Split(v, LINE_SEP)
             IN  PyList([k \in 1..Len(ps) |-> Strip(ps[k])])

\* Word.from_line: the set of outcomes, one per order of the tag set.
from_line(language, ln, sep) ==
    LET split_line == Split(ln, sep)
    IN  IF Len(split_line) # Len(WORD_KEYS) THEN {Failed("AssertionError")}
        ELSE {WordInit(language, Strip(split_line[1]), tags,
                       ParseField(split_line[2]), ParseField(split_line[3]),
                       ParseField(split_line[4]), PyList(sep)) :
                 tags \in process_tags(Strip(split_line[5]))}

(***************************************************************************)
(* Serialization                                                           *)
(***************************************************************************)
RECURSIVE FormatGendered(_)
FormatGendered(tags) ==
    IF tags = <<>> THEN <<>>
    ELSE (IF Head(tags) \in GenderTags THEN <<<<"n", ".">> \o Head(tags)>>
          ELSE IF Head(tags) # tN THEN <<Head(tags)>> ELSE <<>>)
         \o FormatGendered(Tail(tags))

format_tags(w) ==
    IF Range(w.tags) \cap GenderTags # {}
    THEN IF tN \notin Range(w.tags) THEN [status |-> "WordError", value |-> <<>>]
         ELSE [status |-> "ok", value |-> Join(<<" ">>, FormatGendered(w.tags))]
    ELSE [status |-> "ok", value |-> Join(<<" ">>, w.tags)]

\* LINE_SEP.join(list): joining None is a TypeError.
format_list(v) ==
    IF v.isNone THEN [status |-> "TypeError", value |-> <<>>]
    ELSE [status |-> "ok", value |-> Join(LINE_SEP, v.items)]

\* Word.__str__: the notes are interpolated as the list itself, not through
\* format_other.
WordStr(w) ==
    LET sp == <<" ">>
        m  == format_list(w.meanings)
        e  == format_list(w.examples)
        t  == format_tags(w)
    IN  IF m.status # "ok" THEN m
        ELSE IF Truthy(w.examples) /\ e.status # "ok" THEN e
        ELSE IF t.status # "ok" THEN t
        ELSE [status |-> "ok",
              value |-> w.word \o sp \o w.sep \o sp \o m.value \o sp \o w.sep
                        \o (IF Truthy(w.examples) THEN sp \o e.value \o sp \o w.sep
                            ELSE sp \o w.sep)
                        \o (IF Truthy(w.other) THEN sp \o ReprList(w.other.items) \o sp \o w.sep
                            ELSE sp \o w.sep)
                        \o sp \o t.value \o <<"\n">>]

(***************************************************************************)
(* Word functionality                                                      *)
(***************************************************************************)
\* The loop of append_to_attr over the pieces of new_value.  `new not in
\* None` is a TypeError; an empty piece never reaches that test.
RECURSIVE AppendPieces(_, _)
AppendPieces(lst, pieces) ==
    IF pieces = <<>> THEN [status |-> "ok", value |-> lst]
    ELSE LET new == Strip(Head(pieces))
         IN  IF new = <<>> THEN AppendPieces(lst, Tail(pieces))
             ELSE IF lst.isNone THEN [status |-> "TypeError", value |-> lst]
             ELSE IF new \in Range(lst.items) THEN AppendPieces(lst, Tail(pieces))
             ELSE AppendPieces(PyList(Append(lst.items, new)), Tail(pieces))

\* append_to_attr testing the unstripped piece for membership.
RECURSIVE AppendPiecesRaw(_, _)
AppendPiecesRaw(lst, pieces) ==
    IF pieces = <<>> THEN [status |-> "ok", value |-> lst]
    ELSE LET new == Strip(Head(pieces))
         IN  IF new = <<>> THEN AppendPiecesRaw(lst, Tail(pieces))
             ELSE IF lst.isNone THEN [status |-> "TypeError", value |-> lst]
             ELSE IF Head(pieces) \in Range(lst.items) THEN AppendPiecesRaw(lst, Tail(pieces))
             ELSE AppendPiecesRaw(PyList(Append(lst.items, new)), Tail(pieces))

append_to_attr_raw(lst, new_value) == AppendPiecesRaw(lst, Split(new_value, LINE_SEP))

append_to_attr(lst, new_value) == AppendPieces(lst, Split(new_value, LINE_SEP))

\* merge's inner loop over getattr(other, attr), from position k on.  When
\* self and other are one object the list iterated is the list appended to.
RECURSIVE MergeValues(_, _, _, _)
MergeValues(lst, otherLst, alias, k) ==
    LET src == IF alias THEN lst ELSE otherLst
    IN  IF src.isNone THEN [status |-> "TypeError", value |-> lst]
        ELSE IF k > Len(src.items) THEN [status |-> "ok", value |-> lst]
        ELSE IF src.items[k] = <<>> THEN MergeValues(lst, otherLst, alias, k + 1)
        ELSE LET r == append_to_attr(lst, src.items[k])
             IN  IF r.status # "ok" THEN r
                 ELSE MergeValues(r.value, otherLst, alias, k + 1)

ListAttrs == {"meanings", "examples", "other"}

\* merge's outer loop over the set {"meanings", "examples", "other"} in the
\* order `attrs`; a failure leaves the attributes already merged as they are.
RECURSIVE MergeAttrs(_, _, _, _)
MergeAttrs(self, other, alias, attrs) ==
    IF attrs = <<>> THEN [status |-> "ok", w |-> self]
    ELSE LET a == Head(attrs)
             r == MergeValues(self[a], other[a], alias, 1)
             w == [self EXCEPT ![a] = r.value]
         IN  IF r.status # "ok" THEN [status |-> r.status, w |-> w]
             ELSE MergeAttrs(w, other, alias, Tail(attrs))

MergeUnguarded(self, other, alias, attrs) == MergeAttrs(self, other, alias, attrs)

\* Word.merge
merge(self, other, alias, attrs) ==
    IF WordEq(self, other) THEN MergeAttrs(self, other, alias, attrs)
    ELSE [status |-> "ok", w |-> self]

(***************************************************************************)
(* Sort key                                                                *)
(***************************************************************************)
\* The scan of get_sortable_word from part k on: the index of the first part
\* that is no article and starts with a letter, 0 when there is none, -1 when
\* part[0] is taken of an empty part.
RECURSIVE FindInitial(_, _, _)
FindInitial(split_word, articles, k) ==
    IF k > Len(split_word) THEN 0
    ELSE LET part == Strip(split_word[k])
         IN  IF Lower(part) \in articles THEN FindInitial(split_word, articles, k + 1)
             ELSE IF part = <<>> THEN -1
             ELSE IF IsAlpha(part[1]) THEN k
             ELSE FindInitial(split_word, articles, k + 1)

\* " ".join(split_word[i]) joins the characters of the one part found.
get_sortable_word(w) ==
    LET split_word == Split(replace_odd_characters(w.word), <<" ">>)
        i == FindInitial(split_word, ARTICLES[w.language], 1)
    IN  IF i = -1 THEN [status |-> "IndexError", value |-> <<>>]
        ELSE IF i = 0 THEN [status |-> "WordError", value |-> <<>>]
        ELSE [status |-> "ok",
              value |-> Join(<<" ">>, [k \in 1..Len(split_word[i]) |-> <<split_word[i][k]>>])]

get_initial(w) ==
    LET r == get_sortable_word(w)
    IN  IF r.status # "ok" THEN r ELSE [status |-> "ok", value |-> <<r.value[1]>>]

(***************************************************************************)
(* Inputs                                                                  *)
(***************************************************************************)
MaxSteps == 2

Slots == {"w1", "w2"}

xx == <<"x", "x">>
sA == <<"a">>
sB == <<"b">>
sC == <<"c">>
sPadB == <<" ", "b">>
sBbrC == <<"b">> \o LINE_SEP \o <<"c">>
sBlankBrA == <<" ">> \o LINE_SEP \o <<"a">>
Tab == <<"\t">>
Semi == <<";">>

dieSchule == <<"d", "i", "e", " ", "S", "c", "h", "u", "l", "e">>
DieSchule == <<"D", "i", "e", " ", "S", "c", "h", "u", "l", "e">>
dasMasz == <<"d", "a", "s", " ", "M", "a", "sz">>
Haus == <<"H", "a", "u", "s">>
Die == <<"D", "i", "e">>
dashSee == <<"-", " ", " ", "S", "e", "e">>
blank == <<" ", " ">>

Arg(language, word, tags, meanings, examples, other, sep) ==
    [language |-> language, word |-> word, tags |-> tags, meanings |-> meanings,
     examples |-> examples, other |-> other, sep |-> sep]

\* Arguments of Word(...) for the entries held at the start
InitArgs ==
    { Arg(de, dieSchule, <<tN, tF>>, PyList(<<sA>>), PyNone, PyNone, PyNone),
      Arg(de, dieSchule, <<tN, tF>>, PyList(<<sB, sPadB>>), PyList(<<sBbrC>>), PyList(<<sA>>), PyNone),
      Arg(de, dieSchule, <<tF, tN>>, PyList(<<sC>>), PyNone, PyNone, PyNone),
      Arg(en, DieSchule, <<tN, tF>>, PyList(<<sC>>), PyNone, PyList(<<sB>>), PyList(Semi)),
      Arg(de, dasMasz, <<tN, tNt>>, PyNone, PyList(<<sA, sA>>), PyNone, PyNone),
      Arg(de, dasMasz, <<tN, tNt>>, PyList(<<>>), PyList(<<sA, <<>>, sC>>), PyNone, PyNone) }

\* Arguments of Word(...) for the entries constructed later
CtorArgs ==
    { Arg(de, Die, <<tF, <<"z", "z">>, tF>>, PyList(<<sA>>), PyNone, PyNone, PyNone),
      Arg(de, dashSee, <<tExpr>>, PyList(<<sA>>), PyNone, PyNone, PyNone),
      Arg(de, blank, <<tV>>, PyList(<<sA>>), PyNone, PyNone, PyNone),
      Arg(xx, Haus, <<tN>>, PyList(<<sA>>), PyNone, PyNone, PyNone) }

Construct(a) == WordInit(a.language, a.word, a.tags, a.meanings, a.examples, a.other, a.sep)

\* Arguments of add_meaning / add_example / add_other
Values == {sPadB, sBlankBrA}

ParseArg(language, ln, sep) == [language |-> language, line |-> ln, sep |-> sep]

\* Arguments of Word.from_line
ParseArgs ==
    { ParseArg(de, dieSchule \o Tab \o sA \o LINE_SEP \o sA \o Tab \o Tab \o Tab \o <<"n", ".", "f">>, Tab),
      ParseArg(de, Haus \o Tab \o Tab \o Tab \o Tab \o <<"n", " ", "x", "y", "z">>, Tab),
      ParseArg(de, Haus \o Tab \o sA \o Tab \o sB, Tab),
      ParseArg(de, Tab \o sA \o Tab \o Tab \o Tab \o <<"v", "\n">>, Tab),
      ParseArg(en, Haus \o <<" ", ";", " ">> \o sA \o LINE_SEP \o LINE_SEP \o sPadB
                    \o <<" ", ";", " ", ";", " ", ";", " ">> \o <<"n", ".", "n", "t", " ", "n", ".", "p", "l">>, Semi),
      ParseArg(xx, Haus \o Tab \o sA \o Tab \o Tab \o Tab \o <<"n">>, Tab) }

(***************************************************************************)
(* State                                                                   *)
(*   words   the Word objects the caller holds                             *)
(*   line    the last line __str__ produced, and the Word it came from     *)
(*   parsed  the slots whose Word was returned by from_line                *)
(*   order   the order in which this process iterates the set of attribute  *)
(*           names in merge (fixed by the process's string hashing)        *)
(*   res     the last call: its arguments, the state before it, its        *)
(*           outcome, whether it repeats the merge before it (again) and   *)
(*           whether that merge changed an entry (grew)                    *)
(***************************************************************************)
NoLine == [has |-> FALSE, src |-> NoWord, text |-> <<>>]

NoCall == [op |-> "none", slot |-> "", other |-> ""]

\* The call is the merge just made, made again, and that merge found
\* self == other.
Repeats(op, slot, other) ==
    /\ op = "merge"
    /\ res.op = "merge"
    /\ res.slot = slot
    /\ res.other = other
    /\ WordEq(res.pre[slot], res.pre[other])

Call(op, slot, other, arg, status, value) ==
    [op |-> op, slot |-> slot, other |-> other, arg |-> arg, status |-> status,
     value |-> value, pre |-> words,
     again |-> Repeats(op, slot, other),
     grew |-> Repeats(op, slot, other) /\ words # res.pre]

Init ==
    /\ words \in [Slots -> {Construct(a).w : a \in {b \in InitArgs : Construct(b).status = "ok"}}]
    /\ line = NoLine
    /\ parsed = {}
    /\ res = NoCall
    /\ steps = 0
    /\ order \in Perms(ListAttrs)

Step == steps < MaxSteps /\ steps' = steps + 1 /\ UNCHANGED order

\* s = Word(...): on a failure the caller keeps what it had.
New(s, a) ==
    LET r == Construct(a)
    IN  /\ Step
        /\ words' = IF r.status = "ok" THEN [words EXCEPT ![s] = r.w] ELSE words
        /\ parsed' = IF r.status = "ok" THEN parsed \ {s} ELSE parsed
        /\ res' = Call("init", s, "", a, r.status, <<>>)
        /\ UNCHANGED line

\* s = Word.from_line(language, line, sep)
FromLine(s, p) ==
    /\ Step
    /\ \E r \in from_line(p.language, p.line, p.sep) :
        /\ words' = IF r.status = "ok" THEN [words EXCEPT ![s] = r.w] ELSE words
        /\ parsed' = IF r.status = "ok" THEN parsed \cup {s} ELSE parsed
        /\ res' = Call("from_line", s, "", p, r.status, <<>>)
        /\ UNCHANGED line

\* s = Word.from_line(e.language, str(e), e.sep) for the line last printed
Reparse(s) ==
    /\ line.has
    /\ FromLine(s, ParseArg(line.src.language, line.text, line.src.sep))

AddTo(op, attr, s, v) ==
    LET r == append_to_attr(words[s][attr], v)
    IN  /\ Step
        /\ words' = [words EXCEPT ![s][attr] = r.value]
        /\ res' = Call(op, s, "", v, r.status, <<>>)
        /\ UNCHANGED <<line, parsed>>

AddMeaning(s, v) == AddTo("add_meaning", "meanings", s, v)
AddExample(s, v) == AddTo("add_example", "examples", s, v)
AddOther(s, v) == AddTo("add_other", "other", s, v)

\* words[s].merge(words[o])
Merge(s, o) ==
    LET r == merge(words[s], words[o], s = o, order)
    IN  /\ Step
        /\ words' = [words EXCEPT ![s] = r.w]
        /\ res' = Call("merge", s, o, <<>>, r.status, <<>>)
        /\ UNCHANGED <<line, parsed>>

\* words[s] == words[o]
Eq(s, o) ==
    /\ Step
    /\ res' = Call("eq", s, o, <<>>, "ok", <<WordEq(words[s], words[o])>>)
    /\ UNCHANGED <<words, line, parsed>>

\* str(words[s])
Str(s) ==
    LET r == WordStr(words[s])
    IN  /\ Step
        /\ line' = IF r.status = "ok"
                   THEN [has |-> TRUE, src |-> words[s], text |-> r.value] ELSE line
        /\ res' = Call("str", s, "", <<>>, r.status, r.value)
        /\ UNCHANGED <<words, parsed>>

GetSortableWord(s) ==
    LET r == get_sortable_word(words[s])
    IN  /\ Step
        /\ res' = Call("get_sortable_word", s, "", <<>>, r.status, r.value)
        /\ UNCHANGED <<words, line, parsed>>

GetInitial(s) ==
    LET r == get_initial(words[s])
    IN  /\ Step
        /\ res' = Call("get_initial", s, "", <<>>, r.status, r.value)
        /\ UNCHANGED <<words, line, parsed>>

Next ==
    \/ \E s \in Slots, a \in CtorArgs : New(s, a)
    \/ \E s \in Slots, p \in ParseArgs : FromLine(s, p)
    \/ \E s \in Slots : Reparse(s)
    \/ \E s \in Slots, v \in Values : AddMeaning(s, v)
    \/ \E s \in Slots, v \in Values : AddExample(s, v)
    \/ \E s \in Slots, v \in Values : AddOther(s, v)
    \/ \E s \in Slots, o \in Slots : Merge(s, o)
    \/ \E s \in Slots, o \in Slots : Eq(s, o)
    \/ \E s \in Slots : Str(s)
    \/ \E s \in Slots : GetSortableWord(s)
    \/ \E s \in Slots : GetInitial(s)

Spec == Init /\ [][Next]_vars

\* The entry operations merge reads and writes, without the read-only calls.
NextMerge ==
    \/ \E s \in Slots, v \in Values : AddMeaning(s, v)
    \/ \E s \in Slots, v \in Values : AddExample(s, v)
    \/ \E s \in Slots, v \in Values : AddOther(s, v)
    \/ \E s \in Slots, o \in Slots : Merge(s, o)

SpecMerge == Init /\ [][NextMerge]_vars

(***************************************************************************)
(* Properties                                                              *)
(***************************************************************************)
Attrs == <<"meanings", "examples", "other">>

\* Identity by key: language, headword and the tags as a set.
SameKey(a, b) ==
    a.language = b.language /\ a.word = b.word /\ Range(a.tags) = Range(b.tags)

Contains(s, sep) == Len(Split(s, sep)) > 1

SeparatorFree(w, v) ==
    ~v.isNone /\ \A k \in DOMAIN v.items :
                    ~Contains(v.items[k], w.sep) /\ ~Contains(v.items[k], LINE_SEP)

\* A validly constructed entry: tags that can be formatted, lists of
\* separator-free strings.
ValidEntry(w) ==
    /\ w # NoWord
    /\ (Range(w.tags) \cap GenderTags # {} => tN \in Range(w.tags))
    /\ \A a \in ListAttrs : SeparatorFree(w, w[a])

SetEqual(u, v) == ~u.isNone /\ ~v.isNone /\ Range(u.items) = Range(v.items)

IsRoundTrip ==
    /\ res.op = "from_line"
    /\ line.has
    /\ res.arg = ParseArg(line.src.language, line.text, line.src.sep)

\* C1: parsing the line str(e) of a validly constructed entry e, with e's
\* language and separator, succeeds and yields an entry with e's language,
\* headword and tags whose meanings, examples and notes are set-equal to e's.
C1_RoundTrip ==
    (IsRoundTrip /\ ValidEntry(line.src))
        => /\ res.status = "ok"
           /\ SameKey(words[res.slot], line.src)
           /\ \A a \in ListAttrs : SetEqual(words[res.slot][a], line.src[a])

\* C2: a == b exactly when language and headword are equal and the tags are
\* equal as sets.
C2_EqualityByKey ==
    res.op = "eq"
        => (res.value[1] <=> SameKey(words[res.slot], words[res.other]))

\* self's list followed by the values of other's list that are non-empty and
\* not yet present, each once, in other's order.
RECURSIVE OrderedUnion(_, _)
OrderedUnion(selfItems, otherItems) ==
    IF otherItems = <<>> THEN selfItems
    ELSE OrderedUnion(IF Head(otherItems) # <<>> /\ Head(otherItems) \notin Range(selfItems)
                      THEN Append(selfItems, Head(otherItems)) ELSE selfItems,
                      Tail(otherItems))

MergedEqual ==
    res.op = "merge" /\ WordEq(res.pre[res.slot], res.pre[res.other])

\* C3: merging an equal entry does not fail, leaves other as it was, and
\* makes each list of self its old content followed by other's new values,
\* unmodified.
C3_MergeOrderedUnion ==
    MergedEqual
        => /\ res.status = "ok"
           /\ res.slot # res.other => words[res.other] = res.pre[res.other]
           /\ \A a \in ListAttrs :
                 words[res.slot][a] =
                    PyList(OrderedUnion(res.pre[res.slot][a].items, res.pre[res.other][a].items))

\* C4: merging an entry that is not equal changes nothing, in self or other.
C4_MergeNoOpOnInequality ==
    (res.op = "merge" /\ ~WordEq(res.pre[res.slot], res.pre[res.other]))
        => res.status = "ok" /\ words = res.pre

\* An unequal other whose values a merge would have appended.
C4_Witness ==
    /\ res.op = "merge"
    /\ ~WordEq(res.pre[res.slot], res.pre[res.other])
    /\ MergeAttrs(res.pre[res.slot], res.pre[res.other], FALSE, Attrs).w # res.pre[res.slot]
    /\ words = res.pre

\* C5: a second e.merge(e2) right after the first leaves e (and e2) exactly
\* as the first left them, when e == e2.
C5_MergeIdempotent == (res.op = "merge" /\ res.again) => words = res.pre

\* The first merge of two distinct objects appended something; the second
\* did not.
C5_Witness ==
    /\ res.op = "merge"
    /\ res.again
    /\ res.grew
    /\ res.slot # res.other
    /\ words = res.pre

\* The headword parts the sort key is made of, and the first of them that is
\* no article and starts with a letter (0: none).
SortParts(w) == Split(replace_odd_characters(w.word), <<" ">>)

Qualifies(w, part) ==
    part # <<>> /\ Lower(part) \notin ARTICLES[w.language] /\ IsAlpha(part[1])

FirstQualifying(w) ==
    LET ps == SortParts(w)
        ks == {k \in DOMAIN ps : Qualifies(w, ps[k])}
    IN  IF ks = {} THEN 0 ELSE CHOOSE k \in ks : \A j \in ks : k <= j

\* C6: with a qualifying part, get_sortable_word returns the parts from the
\* first qualifying one on, joined by single spaces, and get_initial the
\* first character of that part.
C6_SortKeyExcludesArticles ==
    LET w == words[res.slot]
        i == FirstQualifying(w)
    IN  /\ (res.op = "get_sortable_word" /\ i > 0)
            => /\ res.status = "ok"
               /\ res.value = Join(<<" ">>, SubSeq(SortParts(w), i, Len(SortParts(w))))
        /\ (res.op = "get_initial" /\ i > 0)
            => res.status = "ok" /\ res.value = <<SortParts(w)[i][1]>>

\* C7: without a qualifying part, get_sortable_word and get_initial fail with
\* WordError and nothing else.
C7_SortFailureIsWordError ==
    (res.op \in {"get_sortable_word", "get_initial"} /\ FirstQualifying(words[res.slot]) = 0)
        => res.status = "WordError"

\* C8: a meanings, examples or notes field that is empty after trimming is
\* stored as the empty list.
C8_EmptyFieldIsEmptyList ==
    (res.op = "from_line" /\ res.status = "ok")
        => LET fields == Split(res.arg.line, res.arg.sep)
           IN  \A k \in 1..3 :
                  Strip(fields[k + 1]) = <<>> => words[res.slot][Attrs[k]] = PyList(<<>>)

\* C9: constructing from a headword that is empty or only whitespace fails,
\* so no entry constructed has an empty headword.
C9_HeadwordNeverEmpty ==
    /\ (res.op = "init" /\ Strip(res.arg.word) = <<>>) => res.status # "ok"
    /\ (res.op = "from_line" /\ Len(Split(res.arg.line, res.arg.sep)) = Len(WORD_KEYS)
          /\ Strip(Split(res.arg.line, res.arg.sep)[1]) = <<>>) => res.status # "ok"
    /\ (res.op \in {"init", "from_line"} /\ res.status = "ok") => words[res.slot].word # <<>>

NoRepeatNoEmpty(v) ==
    v.isNone \/ /\ \A k \in DOMAIN v.items : v.items[k] # <<>>
                /\ \A j, k \in DOMAIN v.items : v.items[j] = v.items[k] => j = k

\* C10: the lists of an entry that came from from_line never hold the same
\* string twice, nor an empty string, whatever add_* and merge calls follow.
C10_DedupInvariant ==
    \A s \in parsed : \A a \in ListAttrs : NoRepeatNoEmpty(words[s][a])

====
